---- MODULE Spec2Model ----
(***************************************************************************)
(* A model of poop.py, the P(ython Had)oop streaming framework.            *)
(*                                                                         *)
(*   Spec       main(): the orchestrator walking a built chain             *)
(*   SpecBuild  makejoblist / makeklassdict over a descriptor chain        *)
(*   FairBuild  SpecBuild with the walk scheduled (a running loop runs on) *)
(*   SpecRun    run() for a MAP or REDUCE phase: the lazy pipeline         *)
(*   SpecCodec  stream_decode / stream_encode on one line                  *)
(*                                                                         *)
(* Python values are represented as follows.  A text string is a sequence  *)
(* of one-character strings.  A location (a path) is a sequence of path    *)
(* segments.  None is NoKlass for a class reference, NoLoc for a location  *)
(* and PyNone for an exit status.                                          *)
(***************************************************************************)
EXTENDS Integers, Sequences, FiniteSets, TLC

\* ---------------------------------------------------------------- bounds
MaxStages == 3      \* classes declared by the client program
MaxLines == 2       \* lines on a worker's standard input (MAP)
MaxPairs == 3       \* pairs the user's map function yields in one run
MaxRedLines == 3    \* lines on a worker's standard input (REDUCE)
MaxLineLen == 4     \* characters of a line handed to the codec

\* The value Python's None takes where a class, a location or an exit
\* status is expected.
NoKlass == 0
NoLoc == << >>
PyNone == -1

MAP == "MAP"
RED == "REDUCE"

VARIABLES
    \* the client program's descriptor classes
    nklass,     \* classes 1..nklass are declared; class 1 is the root
    child,      \* child[k]: the class attribute `child` (NoKlass: not set)
    ukout,      \* ukout[k]: the class attribute `use_klass_output`
    kind,       \* kind[k]: "streaming" (PoopJob) or "java" (JavaJob)
    \* makejoblist's arguments and results
    ginput, goutput, joblist, intdata,
    \* makeklassdict / makejoblist as called on their own
    bfn, bpc, klassdict, kcur,
    \* main()
    opts, pc, idx, running, started, stdout, stderr, exitcode, ret,
    \* run() on a worker
    rop, caps, stdin, nread, rpc, emitted, buffer, pending, events, printed,
    \* the codec
    cline, decoded, encoded, cpc

klassVars == <<nklass, child, ukout, kind>>
jobVars == <<ginput, goutput, joblist, intdata>>
buildVars == <<bfn, bpc, klassdict, kcur>>
mainVars == <<opts, pc, idx, running, started, stdout, stderr, exitcode, ret>>
runVars == <<rop, caps, stdin, nread, rpc, emitted, buffer, pending, events,
             printed>>
codecVars == <<cline, decoded, encoded, cpc>>
vars == <<klassVars, jobVars, buildVars, mainVars, runVars, codecVars>>

\* ------------------------------------------------------------ text helpers
Digits == <<"0", "1", "2", "3", "4", "5", "6", "7", "8", "9">>

RECURSIVE str(_)
\* str(i) for a non-negative integer: its decimal digits.
str(i) ==
    IF i < 10 THEN <<Digits[i + 1]>>
    ELSE str(i \div 10) \o <<Digits[(i % 10) + 1]>>

\* The names of the client's classes, in declaration order.
KlassNames == <<"WordCount", "UniqueCount", "Third", "Fourth", "Fifth">>

\* klass.__name__
name(k) == KlassNames[k]

\* ------------------------------------------------------- descriptor classes
\* The descriptor chains a client can declare with n classes reachable from
\* the root: class i links to class i+1, and the last class links to nothing
\* or back to some class (a cycle).
Klasses == 1..nklass

KlassInit ==
    /\ nklass \in 1..MaxStages
    /\ \E last \in 0..nklass :
          child = [i \in 1..nklass |-> IF i < nklass THEN i + 1 ELSE last]
    /\ ukout \in [1..nklass -> {"absent", "true", "false"}]

\* getchild(klass): the class attribute `child`, None when it is not set.
getchild(k) == child[k]

\* -------------------------------------------------------------- PoopJob
\* An input is either one location (a str) or a list of locations.
StrInput(loc) == [isstr |-> TRUE, locs |-> <<loc>>]
ListInput(locs) == [isstr |-> FALSE, locs |-> locs]

NoParent == << >>

\* A constructor that does not take its input from the parent.
PoopJob_init_stale(klass, parent, input, output) ==
    [klass |-> klass, input |-> input, output |-> output]

\* PoopJob.__init__: parent is NoParent or <<job>>.
PoopJob_init(klass, parent, input, output) ==
    [klass |-> klass,
     input |-> IF parent # NoParent THEN StrInput(parent[1].output) ELSE input,
     output |-> output]

\* ------------------------------------------------------------ makejoblist
\* hashlib.sha1(s).hexdigest(): an injective function of the string (SHA-1
\* taken as collision free), kept as an uninterpreted term.  A path built by
\* '/'.join(parts) is the sequence of its segments.
sha1_hexdigest(s) == <<"sha1", s>>

\* The default of the option --intermediate_data_dir.
DefaultIntDataDir == "/__poop"

Entry(job) == <<name(job.klass), job>>

RECURSIVE makejoblist_loop(_, _, _, _, _)
\* The while loop of makejoblist, entered with joblist and i.  The loop's
\* condition and body read only the class of the last instance, so once the
\* list holds more instances than there are classes a class has come round
\* again with every class on the way already past the use_klass_output
\* test: the loop never exits ("diverges").
makejoblist_loop(jl, i, input, output, int_data_dir) ==
    LET job == jl[Len(jl)][2] IN
    IF getchild(job.klass) = NoKlass
    THEN [raised |-> "", joblist |-> jl, i |-> i]
    ELSE IF Len(jl) > nklass
    THEN [raised |-> "diverges", joblist |-> jl, i |-> i]
    ELSE IF ukout[job.klass] = "absent"
    THEN [raised |-> "AttributeError", joblist |-> jl, i |-> i]
    ELSE
        LET output_sha1 == sha1_hexdigest(output)
            job2 == IF ukout[job.klass] = "true"
                    THEN job
                    ELSE [job EXCEPT !.output =
                            <<int_data_dir, output_sha1, str(i),
                              name(job.klass)>>]
            childklass == getchild(job2.klass)
            jl2 == [jl EXCEPT ![Len(jl)] = Entry(job2)]
                   \o <<Entry(PoopJob_init(childklass, <<job2>>, input, output))>>
        IN makejoblist_loop(jl2, i + 1, input, output, int_data_dir)

\* A makejoblist whose counter starts at 0 (`i = 0`).
makejoblist_from0(poopklass, input, output, int_data_dir) ==
    LET first == <<Entry(PoopJob_init(poopklass, NoParent, input, output))>>
        job_intdata == <<int_data_dir, sha1_hexdigest(output)>>
        r == makejoblist_loop(first, 0, input, output, int_data_dir)
    IN [raised |-> r.raised,
        joblist |-> IF r.raised = "" THEN r.joblist ELSE << >>,
        intdata |-> IF r.raised = "" /\ r.i > 1 THEN job_intdata ELSE NoLoc]

\* makejoblist(poopklass, input, output, int_data_dir): what it returns
\* (raised = ""), or how it fails to return.
makejoblist(poopklass, input, output, int_data_dir) ==
    LET first == <<Entry(PoopJob_init(poopklass, NoParent, input, output))>>
        job_intdata == <<int_data_dir, sha1_hexdigest(output)>>
        r == makejoblist_loop(first, 1, input, output, int_data_dir)
    IN [raised |-> r.raised,
        joblist |-> IF r.raised = "" THEN r.joblist ELSE << >>,
        intdata |-> IF r.raised = "" /\ r.i > 1 THEN job_intdata ELSE NoLoc]

\* ---------------------------------------------------------- makeklassdict
\* klassdict[key] = val on a dict held as a set of <<key, value>> pairs.
dict_set(d, key, val) == {p \in d : p[1] # key} \cup {<<key, val>>}

\* ----------------------------------------------------------------- submit
NoInput == ListInput(<< >>)
\* A command: the program, the stage's class with its -input and -output
\* locations, and the arguments submit adds to those of _proc_args.
NoCmd == [prog |-> "", klass |-> NoKlass, input |-> NoInput, output |-> NoLoc,
          args |-> << >>]

\* A _proc_args that does not look for the installation root.
proc_args_nocheck(job) ==
    [raised |-> "",
     cmd |-> [prog |-> "hadoop", klass |-> job.klass,
              input |-> job.input, output |-> job.output, args |-> << >>]]

\* PoopJob._proc_args: the engine's installation root must exist.
proc_args(job) ==
    IF ~opts.hadoophome_exists
    THEN [raised |-> "OptionValueError", cmd |-> NoCmd]
    ELSE [raised |-> "",
          cmd |-> [prog |-> "hadoop", klass |-> job.klass,
                   input |-> job.input, output |-> job.output,
                   args |-> << >>]]

\* PoopJob.submit: `jobsrc` is a local of _proc_args and no global of the
\* module, so building the -mapper argument raises NameError.
PoopJob_submit(job) ==
    LET p == proc_args(job) IN
    IF p.raised # "" THEN p
    ELSE [raised |-> "NameError", cmd |-> NoCmd]

\* JavaJob.submit: hadoop jar <klass.jar> <klass.javaclass> <args>
JavaJob_submit(job) ==
    LET p == proc_args(job) IN
    IF p.raised # "" THEN p
    ELSE [raised |-> "", cmd |-> [p.cmd EXCEPT !.prog = "hadoop jar"]]

\* j.submit(argv, opts), dispatched on the instance's class.
submit(job) ==
    IF kind[job.klass] = "java" THEN JavaJob_submit(job) ELSE PoopJob_submit(job)

\* The exit statuses a subprocess can end with.
ExitStatuses == {0, 1}

\* output.close() of os.popen: None on exit status 0, else the wait status.
popen_close(status) == IF status = 0 THEN PyNone ELSE status * 256

\* ------------------------------------------------- idle parts of the state
\* Each specification runs one part of the program; the variables of the
\* other parts keep these values.
KlassIdle ==
    /\ nklass = 1
    /\ child = [i \in 1..1 |-> NoKlass]
    /\ ukout = [i \in 1..1 |-> "false"]
    /\ kind = [i \in 1..1 |-> "streaming"]

JobIdle ==
    /\ ginput = NoInput
    /\ goutput = NoLoc
    /\ joblist = << >>
    /\ intdata = NoLoc

BuildIdle ==
    /\ bfn = ""
    /\ bpc = ""
    /\ klassdict = {}
    /\ kcur = NoKlass

MainStart ==
    /\ pc = "parse"
    /\ idx = 0
    /\ running = {}
    /\ started = << >>
    /\ stdout = << >>
    /\ stderr = << >>
    /\ exitcode = << >>
    /\ ret = PyNone

MainIdle ==
    /\ opts = [dryrun |-> FALSE, del_int_data |-> FALSE,
               hadoophome_given |-> FALSE, hadoophome_exists |-> TRUE]
    /\ MainStart

RunIdle ==
    /\ rop = ""
    /\ caps = {}
    /\ stdin = << >>
    /\ nread = 0
    /\ rpc = ""
    /\ emitted = << >>
    /\ buffer = << >>
    /\ pending = << >>
    /\ events = << >>
    /\ printed = << >>

CodecIdle ==
    /\ cline = << >>
    /\ decoded = << >>
    /\ encoded = << >>
    /\ cpc = ""

\* =========================================================================
\* SpecBuild: makeklassdict and makejoblist, each called on a descriptor
\* chain.
\* =========================================================================
\* The global inputs (-i, a list of locations) and final outputs (-o) a
\* chain is built with.
BuildInputs == {ListInput(<<<<"in">>>>), ListInput(<<<<"out1">>>>)}
BuildOutputs == {<<"out1">>, <<"out2">>}

BuildInit ==
    /\ KlassInit
    /\ kind = [i \in 1..nklass |-> "streaming"]
    /\ ginput \in BuildInputs
    /\ goutput \in BuildOutputs
    /\ joblist = << >>
    /\ intdata = NoLoc
    /\ bfn \in {"makeklassdict", "makejoblist"}
    /\ bpc = "call"
    /\ klassdict = {}
    /\ kcur = NoKlass
    /\ MainIdle /\ RunIdle /\ CodecIdle

\* makejoblist(poopklass, input, output) called on the root class.  A call
\* that does not return stays in the loop (bpc = "walk") or raises.
MakeJobListCall ==
    /\ bfn = "makejoblist" /\ bpc = "call"
    /\ LET r == makejoblist(1, ginput, goutput, DefaultIntDataDir) IN
        /\ joblist' = r.joblist
        /\ intdata' = r.intdata
        /\ bpc' = CASE r.raised = "" -> "done"
                    [] r.raised = "diverges" -> "walk"
                    [] OTHER -> "raised"
    /\ UNCHANGED <<klassVars, ginput, goutput, bfn, klassdict, kcur,
                   mainVars, runVars, codecVars>>

\* makeklassdict, lines 351-352: the root's entry and its child.
KlassDictCall ==
    /\ bfn = "makeklassdict" /\ bpc = "call"
    /\ klassdict' = {<<name(1), 1>>}
    /\ kcur' = getchild(1)
    /\ bpc' = "walk"
    /\ UNCHANGED <<klassVars, jobVars, bfn, mainVars, runVars, codecVars>>

\* makeklassdict, line 353: the while test finds another class.
KlassDictTest ==
    /\ bfn = "makeklassdict" /\ bpc = "walk"
    /\ kcur # NoKlass
    /\ bpc' = "body"
    /\ UNCHANGED <<klassVars, jobVars, bfn, klassdict, kcur,
                   mainVars, runVars, codecVars>>

\* A loop body that files the class under the root's name
\* (`klassdict[poopklass.__name__] = k`).
KlassDictBody_rootname ==
    /\ bfn = "makeklassdict" /\ bpc = "body"
    /\ klassdict' = dict_set(klassdict, name(1), kcur)
    /\ kcur' = getchild(kcur)
    /\ bpc' = "walk"
    /\ UNCHANGED <<klassVars, jobVars, bfn, mainVars, runVars, codecVars>>

\* makeklassdict, lines 354-355: the body of the while loop.
KlassDictBody ==
    /\ bfn = "makeklassdict" /\ bpc = "body"
    /\ klassdict' = dict_set(klassdict, name(kcur), kcur)
    /\ kcur' = getchild(kcur)
    /\ bpc' = "walk"
    /\ UNCHANGED <<klassVars, jobVars, bfn, mainVars, runVars, codecVars>>

\* makeklassdict, lines 353 and 356: the while test fails and the dict is
\* returned.
KlassDictReturn ==
    /\ bfn = "makeklassdict" /\ bpc = "walk"
    /\ kcur = NoKlass
    /\ bpc' = "done"
    /\ UNCHANGED <<klassVars, jobVars, bfn, klassdict, kcur,
                   mainVars, runVars, codecVars>>

\* run(), lines 219 and 236, and main, line 253: with argv[1] neither MAP
\* nor REDUCE, run goes on from makeklassdict to main, which calls
\* makejoblist on the same root class.
RunMain ==
    /\ bfn = "makeklassdict" /\ bpc = "done"
    /\ bfn' = "main"
    /\ LET r == makejoblist(1, ginput, goutput, DefaultIntDataDir) IN
        /\ joblist' = r.joblist
        /\ intdata' = r.intdata
        /\ bpc' = CASE r.raised = "" -> "done"
                    [] r.raised = "diverges" -> "walk"
                    [] OTHER -> "raised"
    /\ UNCHANGED <<klassVars, ginput, goutput, klassdict, kcur,
                   mainVars, runVars, codecVars>>

NextBuild ==
    \/ MakeJobListCall
    \/ RunMain
    \/ KlassDictCall
    \/ KlassDictTest
    \/ KlassDictBody
    \/ KlassDictReturn

SpecBuild == BuildInit /\ [][NextBuild]_vars

\* A running Python function takes its next step: the interpreter does not
\* stop inside makeklassdict.
FairBuild ==
    /\ SpecBuild
    /\ WF_vars(KlassDictCall)
    /\ WF_vars(KlassDictTest)
    /\ WF_vars(KlassDictBody)
    /\ WF_vars(KlassDictReturn)

\* ------------------------------------------------- claims on the chain builder
Acyclic == child[nklass] = NoKlass

\* The output of position i was rewritten to the intermediate location
\* base-directory / hash(final-output) / ordinal / stage-name.
Rewritten(i) ==
    joblist[i][2].output =
        <<DefaultIntDataDir, sha1_hexdigest(goutput), str(i), name(joblist[i][2].klass)>>

\* C3: for every chain of N >= 1 linked descriptors, none of which asks to
\* keep its declared output, makejoblist returns N instances in link order,
\* exactly the first N-1 with their output rewritten to an intermediate
\* location and the last with the requested final output.
C3_ChainOutputs ==
    (/\ bfn = "makejoblist" /\ bpc # "call"
     /\ Acyclic
     /\ \A k \in Klasses : ukout[k] # "true")
    => /\ bpc = "done"
       /\ Len(joblist) = nklass
       /\ \A i \in 1..nklass : joblist[i] = <<name(i), joblist[i][2]>>
       /\ \A i \in 1..nklass : joblist[i][2].klass = i
       /\ \A i \in 1..(nklass - 1) : Rewritten(i)
       /\ ~Rewritten(nklass)
       /\ joblist[nklass][2].output = goutput

\* C4: in every chain makejoblist returns, the input of each instance after
\* the first is the output (as rewritten) of the instance before it, and the
\* first instance's input is the caller's global input.
C4_InputIsParentOutput ==
    (bfn = "makejoblist" /\ bpc = "done")
    => /\ Len(joblist) >= 1
       /\ joblist[1][2].input = ginput
       /\ \A i \in 2..Len(joblist) :
             joblist[i][2].input = StrInput(joblist[i - 1][2].output)

\* A returned chain of three stages whose first two outputs were rewritten.
C4_Witness ==
    /\ bfn = "makejoblist" /\ bpc = "done"
    /\ Len(joblist) = 3
    /\ Rewritten(1) /\ Rewritten(2)
    /\ joblist[3][2].input = StrInput(joblist[2][2].output)

\* C5: the walk over the descriptor chain terminates for every chain, a
\* cyclic one included: makeklassdict, once called, returns or raises.
C5_WalkTerminates ==
    <>(bfn = "makeklassdict" => bpc \in {"done", "raised"})

\* C14: makejoblist returns the intermediate namespace path if and only if
\* the output of at least one instance was rewritten to an intermediate
\* location; on a single-stage chain, or when every non-terminal stage keeps
\* its declared output, it returns none.
C14_IntdataIffRewritten ==
    (bfn = "makejoblist" /\ bpc = "done")
    => /\ (intdata # NoLoc) <=> (\E i \in 1..Len(joblist) : Rewritten(i))
       /\ intdata # NoLoc =>
             intdata = <<DefaultIntDataDir, sha1_hexdigest(goutput)>>

\* C15: every output makejoblist has rewritten (every output that is not
\* the final output) is base-directory / hash(final-output) / ordinal /
\* stage-name with the ordinal the 1-based position of the stage; and
\* against a second build of the same root with any input and final output,
\* the hash segments of the rewritten outputs agree exactly when the final
\* outputs are the same.
C15_IntermediatePath ==
    (bfn = "makejoblist" /\ bpc = "done")
    => /\ \A i \in 1..Len(joblist) :
             joblist[i][2].output # goutput => Rewritten(i)
       /\ \A in2 \in BuildInputs, o2 \in BuildOutputs :
             LET jl2 == makejoblist(1, in2, o2, DefaultIntDataDir).joblist IN
             \A i \in 1..Len(joblist), j \in 1..Len(jl2) :
                (joblist[i][2].output # goutput /\ jl2[j][2].output # o2)
                => ((joblist[i][2].output[2] = jl2[j][2].output[2])
                       <=> (o2 = goutput))

\* The second of three stages was given .../2/UniqueCount under the hash
\* of the final output out2.
C15_Witness ==
    /\ bfn = "makejoblist" /\ bpc = "done"
    /\ goutput = <<"out2">>
    /\ Len(joblist) = 3
    /\ joblist[2][2].output =
          <<"/__poop", sha1_hexdigest(<<"out2">>), <<"2">>, "UniqueCount">>

\* C19: for an acyclic chain, every (name, instance) pair of the chain
\* makejoblist returns has its name in the mapping makeklassdict returned
\* for the same root, and the mapping takes that name to the class of the
\* instance and to no other.
C19_DispatchMatchesChain ==
    (bfn = "main" /\ bpc = "done")
    => /\ Acyclic
       /\ \A i \in 1..Len(joblist) :
             /\ \E p \in klassdict : p[1] = joblist[i][1]
             /\ \A p \in klassdict :
                   p[1] = joblist[i][1] => p[2] = joblist[i][2].klass

\* The mapping and the chain of three linked classes.
C19_Witness ==
    /\ bfn = "main" /\ bpc = "done"
    /\ Len(joblist) = 3
    /\ klassdict = {<<"WordCount", 1>>, <<"UniqueCount", 2>>, <<"Third", 3>>}
    /\ joblist[3][1] = "Third" /\ joblist[3][2].klass = 3

\* Whether loc is among the input locations of job.
IsInputOf(loc, job) == \E j \in 1..Len(job.input.locs) : job.input.locs[j] = loc

\* C20: in every chain makejoblist builds from a global input that differs
\* from the global output, no instance has its own output location among
\* its input locations, also when a non-terminal stage keeps its declared
\* output.
C20_InputNotOutput ==
    (/\ bfn = "makejoblist" /\ bpc = "done"
     /\ \A j \in 1..Len(ginput.locs) : ginput.locs[j] # goutput)
    => \A i \in 1..Len(joblist) :
          ~IsInputOf(joblist[i][2].output, joblist[i][2])

\* =========================================================================
\* Spec: main(argv, poopklass), the client-side orchestrator.
\* =========================================================================
\* The subprocess that deletes the intermediate data, among the stage
\* subprocesses 1..Len(joblist).
DeleteProc == 0

Out(t, n, c) == [t |-> t, name |-> n, cmd |-> c]

Init ==
    /\ KlassInit
    /\ kind \in [1..nklass -> {"streaming", "java"}]
    /\ ginput = ListInput(<<<<"in">>>>)
    /\ goutput = <<"out1">>
    /\ joblist = << >>
    /\ intdata = NoLoc
    /\ opts \in [dryrun : BOOLEAN, del_int_data : BOOLEAN,
                 hadoophome_given : BOOLEAN, hadoophome_exists : BOOLEAN]
    /\ MainStart
    /\ BuildIdle /\ RunIdle /\ CodecIdle

\* Line 252, _parser.parse_args: the -H callback check_hadoop_home raises
\* OptionValueError, which optparse reports before exiting with status 2.
ParseArgs ==
    /\ pc = "parse"
    /\ IF opts.hadoophome_given /\ ~opts.hadoophome_exists
       THEN /\ pc' = "exit"
            /\ ret' = 2
            /\ stderr' = Append(stderr, "Hadoop home does not exist.")
       ELSE /\ pc' = "build"
            /\ UNCHANGED <<ret, stderr>>
    /\ UNCHANGED <<klassVars, jobVars, buildVars, opts, idx, running, started,
                   stdout, exitcode, runVars, codecVars>>

\* Lines 253-264: makejoblist, then the branch on --dryrun (a dry run first
\* prints the local pipeline).
BuildChain ==
    /\ pc = "build"
    /\ LET r == makejoblist(1, ginput, goutput, DefaultIntDataDir) IN
        /\ joblist' = r.joblist
        /\ intdata' = r.intdata
        /\ CASE r.raised = "diverges" ->
                  /\ pc' = "makejoblist"
                  /\ UNCHANGED <<idx, stdout, stderr>>
             [] r.raised = "AttributeError" ->
                  /\ pc' = "raised"
                  /\ stderr' = Append(stderr, r.raised)
                  /\ UNCHANGED <<idx, stdout>>
             [] OTHER ->
                  /\ pc' = IF opts.dryrun THEN "dry" ELSE "loop"
                  /\ idx' = 1
                  /\ stdout' = IF opts.dryrun
                               THEN Append(stdout, Out("local", "", NoCmd))
                               ELSE stdout
                  /\ UNCHANGED stderr
    /\ UNCHANGED <<klassVars, ginput, goutput, buildVars, opts, running,
                   started, exitcode, ret, runVars, codecVars>>

\* Lines 265-267: one stage of a dry run, its header and its invocation.
DryBlock ==
    /\ pc = "dry" /\ idx <= Len(joblist)
    /\ LET nm == joblist[idx][1]
           r == submit(joblist[idx][2])
       IN IF r.raised # ""
          THEN /\ stdout' = Append(stdout, Out("header", nm, NoCmd))
               /\ stderr' = Append(stderr, r.raised)
               /\ pc' = "raised"
               /\ UNCHANGED idx
          ELSE /\ stdout' = stdout \o <<Out("header", nm, NoCmd),
                                        Out("cmd", nm, r.cmd)>>
               /\ idx' = idx + 1
               /\ UNCHANGED <<stderr, pc>>
    /\ UNCHANGED <<klassVars, jobVars, buildVars, opts, running, started,
                   exitcode, ret, runVars, codecVars>>

\* Line 268: the dry run's closing rule.
DryEnd ==
    /\ pc = "dry" /\ idx > Len(joblist)
    /\ stdout' = Append(stdout, Out("rule", "", NoCmd))
    /\ pc' = "cleanup"
    /\ UNCHANGED <<klassVars, jobVars, buildVars, opts, idx, running, started,
                   stderr, exitcode, ret, runVars, codecVars>>

\* A submission that goes on to the next stage without waiting for the
\* subprocess to end.
SubmitStage_nowait ==
    /\ pc = "loop" /\ idx <= Len(joblist)
    /\ LET nm == joblist[idx][1]
           r == submit(joblist[idx][2])
       IN /\ stdout' = Append(stdout, Out("header", nm, NoCmd))
          /\ IF r.raised # ""
             THEN /\ stderr' = Append(stderr, r.raised)
                  /\ pc' = "raised"
                  /\ UNCHANGED <<running, started, idx>>
             ELSE /\ started' = Append(started, idx)
                  /\ running' = running \cup {idx}
                  /\ idx' = idx + 1
                  /\ UNCHANGED <<stderr, pc>>
    /\ UNCHANGED <<klassVars, jobVars, buildVars, opts, exitcode, ret,
                   runVars, codecVars>>

\* Lines 270-272 and 244: the stage's header, its invocation, and os.popen
\* starting the subprocess.
SubmitStage ==
    /\ pc = "loop" /\ idx <= Len(joblist)
    /\ LET nm == joblist[idx][1]
           r == submit(joblist[idx][2])
       IN /\ stdout' = Append(stdout, Out("header", nm, NoCmd))
          /\ IF r.raised # ""
             THEN /\ stderr' = Append(stderr, r.raised)
                  /\ pc' = "raised"
                  /\ UNCHANGED <<running, started>>
             ELSE /\ started' = Append(started, idx)
                  /\ running' = running \cup {idx}
                  /\ pc' = "monitor"
                  /\ UNCHANGED stderr
    /\ UNCHANGED <<klassVars, jobVars, buildVars, opts, idx, exitcode, ret,
                   runVars, codecVars>>

\* An exit after which the loop goes on whatever the status.
StageExit_continue ==
    /\ pc = "monitor"
    /\ \E status \in ExitStatuses :
        LET code == popen_close(status) IN
        /\ running' = running \ {idx}
        /\ exitcode' = Append(exitcode, code)
        /\ stderr' = IF code # PyNone THEN Append(stderr, "Job failed") ELSE stderr
        /\ idx' = idx + 1
        /\ pc' = "loop"
        /\ UNCHANGED ret
    /\ UNCHANGED <<klassVars, jobVars, buildVars, opts, started, stdout,
                   runVars, codecVars>>

\* An exit that hands the stage's status on as main's own (`return exitcode`).
StageExit_status ==
    /\ pc = "monitor"
    /\ \E status \in ExitStatuses :
        LET code == popen_close(status) IN
        /\ running' = running \ {idx}
        /\ exitcode' = Append(exitcode, code)
        /\ IF code # PyNone
           THEN /\ stderr' = Append(stderr, "Job failed")
                /\ ret' = code
                /\ pc' = "returned"
                /\ UNCHANGED idx
           ELSE /\ idx' = idx + 1
                /\ pc' = "loop"
                /\ UNCHANGED <<stderr, ret>>
    /\ UNCHANGED <<klassVars, jobVars, buildVars, opts, started, stdout,
                   runVars, codecVars>>

\* Lines 245-247 and 277-280: the subprocess's output is read to its end,
\* close() waits for the exit status, and a status other than None ends
\* main with 1.
StageExit ==
    /\ pc = "monitor"
    /\ \E status \in ExitStatuses :
        LET code == popen_close(status) IN
        /\ running' = running \ {idx}
        /\ exitcode' = Append(exitcode, code)
        /\ IF code # PyNone
           THEN /\ stderr' = Append(stderr, "Job failed")
                /\ ret' = 1
                /\ pc' = "returned"
                /\ UNCHANGED idx
           ELSE /\ idx' = idx + 1
                /\ pc' = "loop"
                /\ UNCHANGED <<stderr, ret>>
    /\ UNCHANGED <<klassVars, jobVars, buildVars, opts, started, stdout,
                   runVars, codecVars>>

\* Line 281: every stage succeeded.
LoopEnd ==
    /\ pc = "loop" /\ idx > Len(joblist)
    /\ stdout' = Append(stdout, Out("rule", "", NoCmd))
    /\ pc' = "cleanup"
    /\ UNCHANGED <<klassVars, jobVars, buildVars, opts, idx, running, started,
                   stderr, exitcode, ret, runVars, codecVars>>

\* hadoop dfs -rmr <intdata>
delcmd == [prog |-> "hadoop dfs -rmr", klass |-> NoKlass, input |-> NoInput,
           output |-> intdata, args |-> << >>]

\* A cleanup that does not look at --delete_intermediates (`if intdata:`).
Cleanup_unasked ==
    /\ pc = "cleanup"
    /\ IF intdata # NoLoc
       THEN IF opts.dryrun
            THEN /\ stdout' = Append(stdout, Out("delcmd", "", delcmd))
                 /\ ret' = 0
                 /\ pc' = "returned"
                 /\ UNCHANGED <<running, started>>
            ELSE /\ stdout' = Append(stdout, Out("cleaning", "", NoCmd))
                 /\ started' = Append(started, DeleteProc)
                 /\ running' = running \cup {DeleteProc}
                 /\ pc' = "delmonitor"
                 /\ UNCHANGED ret
       ELSE /\ ret' = 0
            /\ pc' = "returned"
            /\ UNCHANGED <<stdout, running, started>>
    /\ UNCHANGED <<klassVars, jobVars, buildVars, opts, idx, stderr,
                   exitcode, runVars, codecVars>>

\* Lines 284-293: the intermediate data is deleted (a dry run prints the
\* command), or there is nothing to clean up.
Cleanup ==
    /\ pc = "cleanup"
    /\ IF opts.del_int_data /\ intdata # NoLoc
       THEN IF opts.dryrun
            THEN /\ stdout' = Append(stdout, Out("delcmd", "", delcmd))
                 /\ ret' = 0
                 /\ pc' = "returned"
                 /\ UNCHANGED <<running, started>>
            ELSE /\ stdout' = Append(stdout, Out("cleaning", "", NoCmd))
                 /\ started' = Append(started, DeleteProc)
                 /\ running' = running \cup {DeleteProc}
                 /\ pc' = "delmonitor"
                 /\ UNCHANGED ret
       ELSE /\ ret' = 0
            /\ pc' = "returned"
            /\ UNCHANGED <<stdout, running, started>>
    /\ UNCHANGED <<klassVars, jobVars, buildVars, opts, idx, stderr,
                   exitcode, runVars, codecVars>>

\* Lines 291-293: the delete subprocess ends; its status is not looked at.
DeleteExit ==
    /\ pc = "delmonitor"
    /\ running' = running \ {DeleteProc}
    /\ ret' = 0
    /\ pc' = "returned"
    /\ UNCHANGED <<klassVars, jobVars, buildVars, opts, idx, started, stdout,
                   stderr, exitcode, runVars, codecVars>>

Next ==
    \/ ParseArgs
    \/ BuildChain
    \/ DryBlock
    \/ DryEnd
    \/ SubmitStage
    \/ StageExit
    \/ LoopEnd
    \/ Cleanup
    \/ DeleteExit

Spec == Init /\ [][Next]_vars

\* ------------------------------------------------- claims on the orchestrator
IsCmd(e) == e.t = "cmd"
IsHeader(e) == e.t = "header"

\* C1: in a non-dry run, once the subprocess of stage k has reported a
\* non-success exit status, stage k is the last subprocess ever started (no
\* later stage, no second start of k) and main has stopped walking the chain.
C1_StopAtFirstFailure ==
    \A k \in 1..Len(exitcode) :
        exitcode[k] # PyNone
        => /\ ~opts.dryrun
           /\ k = Len(exitcode)
           /\ Len(started) = k
           /\ \A i \in 1..k : started[i] = i
           /\ running = {}
           /\ pc = "returned"
           /\ ret = 1

\* The second of three stages failed and main returned.
C1_Witness ==
    /\ Len(joblist) = 3
    /\ exitcode = <<PyNone, popen_close(1)>>
    /\ started = <<1, 2>>
    /\ pc = "returned"

\* C6: stage subprocesses are started one at a time in chain order: the
\* i-th subprocess started is stage i, a subprocess started earlier has
\* exited before the next one starts, and never are two running.
C6_OneAtATime ==
    /\ Cardinality(running) <= 1
    /\ \A i \in 1..Len(started) : started[i] # DeleteProc => started[i] = i
    /\ \A i \in 1..(Len(started) - 1) : started[i] \notin running
    /\ \A p \in running : \E i \in 1..Len(started) : started[i] = p

\* Stage 1 has exited and stage 2 is running.
C6_Witness ==
    /\ ~opts.dryrun
    /\ started = <<1, 2>>
    /\ running = {2}
    /\ Len(exitcode) = 1

\* C10: a dry run over a chain of N stages prints exactly N stage
\* invocation blocks (header and command), one per stage in chain order,
\* and starts no subprocess.
C10_DryRunPrintsEveryStage ==
    (/\ opts.dryrun
     /\ opts.hadoophome_exists
     /\ joblist # << >>
     /\ pc \in {"returned", "raised"})
    => /\ Len(SelectSeq(stdout, IsCmd)) = Len(joblist)
       /\ Len(SelectSeq(stdout, IsHeader)) = Len(joblist)
       /\ \A i \in 1..Len(joblist) :
             SelectSeq(stdout, IsCmd)[i].name = joblist[i][1]
       /\ started = << >>

\* Every stage of the chain was submitted and its subprocess succeeded.
AllSucceeded ==
    /\ joblist # << >>
    /\ Len(exitcode) = Len(joblist)
    /\ \A k \in 1..Len(exitcode) : exitcode[k] = PyNone

SomeFailed == \E k \in 1..Len(exitcode) : exitcode[k] # PyNone

IsDelCmd(e) == e.t = "delcmd"
DeleteStarted == \E i \in 1..Len(started) : started[i] = DeleteProc
DeletePrinted == SelectSeq(stdout, IsDelCmd) # << >>

\* Cleanup was requested and makejoblist returned a namespace.
CleanupDue == opts.del_int_data /\ intdata # NoLoc

\* C11: the recursive-delete command is executed exactly when the run is
\* non-dry, every stage succeeded, cleanup was requested and makejoblist
\* returned a namespace: it is started only then, and main does not return
\* from such a run without having started it.  It is never started after a
\* failed stage; a dry run never starts it and prints it when cleanup was
\* requested and there is a namespace; a non-dry run never prints it.
C11_CleanupExactlyWhen ==
    /\ DeleteStarted => (~opts.dryrun /\ AllSucceeded /\ CleanupDue)
    /\ (pc = "returned" /\ ~opts.dryrun /\ AllSucceeded /\ CleanupDue)
          => DeleteStarted
    /\ SomeFailed => ~DeleteStarted
    /\ opts.dryrun => /\ ~DeleteStarted
                      /\ DeletePrinted => CleanupDue
                      /\ (pc = "returned" /\ CleanupDue) => DeletePrinted
    /\ ~opts.dryrun => ~DeletePrinted
    /\ DeletePrinted =>
          SelectSeq(stdout, IsDelCmd) = <<Out("delcmd", "", delcmd)>>

\* Both stages of a chain succeeded, the delete subprocess was started and
\* main returned.
C11_Witness ==
    /\ ~opts.dryrun /\ opts.del_int_data
    /\ Len(joblist) = 2
    /\ exitcode = <<PyNone, PyNone>>
    /\ started = <<1, 2, DeleteProc>>
    /\ pc = "returned"

\* C12: when main returns, it returns 0 or 1: 1 exactly when the subprocess
\* of a submitted stage reported a non-success status, 0 exactly when every
\* stage of the chain was submitted and succeeded or the run was a dry run.
\* A failed stage makes main return 1 at once.
C12_ReturnCodes ==
    /\ pc = "returned" =>
          /\ ret \in {0, 1}
          /\ ret = 1 <=> SomeFailed
          /\ ret = 0 <=> (opts.dryrun \/ AllSucceeded)
    /\ SomeFailed => (pc = "returned" /\ ret = 1)
    /\ ret \in {0, 1} => pc = "returned"

\* The third of three stages failed and main returned 1.
C12_Witness ==
    /\ Len(joblist) = 3
    /\ exitcode = <<PyNone, PyNone, popen_close(1)>>
    /\ pc = "returned"
    /\ ret = 1

\* The arguments of a streaming invocation the claim C16 is about, with
\* opts.python = python and argv[0] = prog.py.
MapperArg(nm) == <<"-mapper", "python", "prog.py", MAP, nm>>
ReducerArg(nm) == <<"-reducer", "python", "prog.py", RED, nm>>
NoReduceArg == <<"-numReduceTasks", "0">>
HasArg(c, a) == \E j \in 1..Len(c.args) : c.args[j] = a

\* C16: for every streaming stage submit has been called on (the stage's
\* header is printed right before the call), the installation root being
\* there, submit returns an invocation; it holds the mapper command
\* <interpreter> <entry-program> MAP <stage-name> and exactly one of the
\* reducer command and -numReduceTasks 0.
C16_StreamingInvocation ==
    \A i \in 1..Len(joblist) :
        (/\ kind[joblist[i][2].klass] = "streaming"
         /\ opts.hadoophome_exists
         /\ Len(SelectSeq(stdout, IsHeader)) >= i)
        => LET r == submit(joblist[i][2]) IN
           /\ r.raised = ""
           /\ pc # "raised"
           /\ HasArg(r.cmd, MapperArg(joblist[i][1]))
           /\ HasArg(r.cmd, ReducerArg(joblist[i][1])) # HasArg(r.cmd, NoReduceArg)

\* C17: if the installation root of the external engine does not exist, no
\* stage subprocess is ever started (nor the delete subprocess), main never
\* gets past the first stage and never returns, and where it stops it has
\* stopped on an error that was reported.
C17_MissingHadoopHome ==
    ~opts.hadoophome_exists
    => /\ started = << >>
       /\ running = {}
       /\ exitcode = << >>
       /\ pc \notin {"monitor", "cleanup", "delmonitor", "returned"}
       /\ pc \in {"loop", "dry"} => idx = 1
       /\ ret \notin {0, 1}
       /\ pc \in {"exit", "raised"} => stderr # << >>

\* The default installation root is missing: the first submit of a non-dry
\* run over two stages raised.
C17_Witness ==
    /\ ~opts.hadoophome_exists /\ ~opts.hadoophome_given
    /\ ~opts.dryrun
    /\ Len(joblist) = 2
    /\ pc = "raised"
    /\ stderr = <<"OptionValueError">>
    /\ started = << >>

\* =========================================================================
\* PoopRunner: records, ordering, grouping and the line codec.
\* =========================================================================
\* A Python value of a record: a string or an integer.  A string is a
\* sequence of characters; "xC3" stands for the one byte 0xC3, the first
\* byte of a two-byte UTF-8 character.  A unicode object, which holds ASCII
\* text wherever the model makes one, is held as the str of the same text.
PyStr(s) == [t |-> "str", s |-> s, n |-> 0]
PyInt(n) == [t |-> "int", s |-> << >>, n |-> n]

TAB == "\t"

\* ord(c) for the characters the model's texts are made of.
ord(c) ==
    CASE c = TAB -> 9
      [] c = "0" -> 48 [] c = "1" -> 49 [] c = "2" -> 50 [] c = "3" -> 51
      [] c = "4" -> 52 [] c = "5" -> 53 [] c = "6" -> 54 [] c = "7" -> 55
      [] c = "8" -> 56 [] c = "9" -> 57
      [] c = "a" -> 97 [] c = "b" -> 98
      [] c = "xC3" -> 195

\* The default codec of Python 2 decodes a str whose bytes are all below 128.
is_ascii(s) == \A i \in 1..Len(s) : ord(s[i]) < 128

RECURSIVE text_cmp(_, _)
\* cmp(s, t) of two strings: -1, 0 or 1, by code point, a prefix first.
text_cmp(s, t) ==
    IF s = << >> /\ t = << >> THEN 0
    ELSE IF s = << >> THEN -1
    ELSE IF t = << >> THEN 1
    ELSE IF ord(Head(s)) < ord(Head(t)) THEN -1
    ELSE IF ord(Head(s)) > ord(Head(t)) THEN 1
    ELSE text_cmp(Tail(s), Tail(t))

\* cmp(x, y) of two values as Python 2 orders them: numbers before strings.
py_cmp(x, y) ==
    IF x.t = "int" /\ y.t = "int"
    THEN (IF x.n < y.n THEN -1 ELSE IF x.n > y.n THEN 1 ELSE 0)
    ELSE IF x.t = "int" THEN -1
    ELSE IF y.t = "int" THEN 1
    ELSE text_cmp(x.s, y.s)

RECURSIVE tuple_cmp(_, _)
\* cmp of two tuples: by the first position at which they differ.
tuple_cmp(a, b) ==
    IF a = << >> /\ b = << >> THEN 0
    ELSE IF a = << >> THEN -1
    ELSE IF b = << >> THEN 1
    ELSE IF py_cmp(Head(a), Head(b)) # 0 THEN py_cmp(Head(a), Head(b))
    ELSE tuple_cmp(Tail(a), Tail(b))

key_cmp(a, b) == py_cmp(a[1], b[1])

\* The comparison a sort uses: of whole records, or of their keys alone.
record_cmp(bykey, a, b) == IF bykey THEN key_cmp(a, b) ELSE tuple_cmp(a, b)

RECURSIVE insert_sorted(_, _, _)
\* xs (sorted) with x put after every element not greater than it.
insert_sorted(bykey, xs, x) ==
    IF xs = << >> THEN <<x>>
    ELSE IF record_cmp(bykey, x, Head(xs)) < 0 THEN <<x>> \o xs
    ELSE <<Head(xs)>> \o insert_sorted(bykey, Tail(xs), x)

RECURSIVE stable_sort(_, _)
\* A stable sort: the elements are put in place one by one, in their order.
stable_sort(bykey, xs) ==
    IF xs = << >> THEN << >>
    ELSE insert_sorted(bykey, stable_sort(bykey, SubSeq(xs, 1, Len(xs) - 1)),
                       xs[Len(xs)])

\* sorted(out, key=itemgetter(0)): a sort that compares the keys alone.
sorted_by_key(xs) == stable_sort(TRUE, xs)

\* sorted(out): the records in ascending order; the sort is stable and
\* compares whole tuples.
sorted(xs) == stable_sort(FALSE, xs)

\* itemgetter(0)
itemgetter0(rec) == rec[1]

RECURSIVE run_length_record(_)
\* groupby(data): a grouping of whole records, the key function left out.
run_length_record(data) ==
    IF Len(data) <= 1 THEN Len(data)
    ELSE IF data[2] = data[1]
    THEN 1 + run_length_record(Tail(data))
    ELSE 1

RECURSIVE run_length(_)
\* groupby(data, itemgetter(0)): the length of the first group, the longest
\* run of records at the head of data whose keys equal the first one's.
run_length(data) ==
    IF Len(data) <= 1 THEN Len(data)
    ELSE IF itemgetter0(data[2]) = itemgetter0(data[1])
    THEN 1 + run_length(Tail(data))
    ELSE 1

\* unicode(v) of a str decodes it with the default codec and raises
\* UnicodeDecodeError on a byte that is not ASCII.
unicode_raises(v) == v.t = "str" /\ ~is_ascii(v.s)

\* unicode(v), where it does not raise.
unicode(v) == IF v.t = "int" THEN str(v.n) ELSE v.s

RECURSIVE join(_, _)
\* sep.join(parts)
join(sep, parts) ==
    IF parts = << >> THEN << >>
    ELSE IF Len(parts) = 1 THEN parts[1]
    ELSE parts[1] \o <<sep>> \o join(sep, Tail(parts))

stream_encode_raises(line) == \E i \in 1..Len(line) : unicode_raises(line[i])

\* stream_encode, for one element of the stream (where it does not raise).
stream_encode(line) ==
    join(TAB, [i \in 1..Len(line) |-> unicode(line[i])])

RECURSIVE split(_, _, _)
\* s.split(sep, maxsplit): the fields, as texts.
split(s, sep, maxsplit) ==
    IF maxsplit = 0 \/ ~(\E i \in 1..Len(s) : s[i] = sep) THEN <<s>>
    ELSE LET at == CHOOSE i \in 1..Len(s) :
                      s[i] = sep /\ \A j \in 1..(i - 1) : s[j] # sep
         IN <<SubSeq(s, 1, at - 1)>>
            \o split(SubSeq(s, at + 1, Len(s)), sep, maxsplit - 1)

\* input.split(u"\t", 1) of a str first decodes the str with the default
\* codec, and raises UnicodeDecodeError on a byte that is not ASCII.
stream_decode_raises(input) == ~is_ascii(input)

\* stream_decode, for one element of the stream (where it does not raise).
stream_decode(input) ==
    LET f == split(input, TAB, 1) IN [i \in 1..Len(f) |-> PyStr(f[i])]

\* (v[1] for v in values): a record of fewer than two fields has no v[1],
\* and reading it raises IndexError.
has_value(rec) == Len(rec) >= 2

RECURSIVE group_values(_)
\* The values the generator yields before it raises or ends.
group_values(recs) ==
    IF recs = << >> \/ ~has_value(Head(recs)) THEN << >>
    ELSE <<Head(recs)[2]>> \o group_values(Tail(recs))

group_raises(recs) == \E i \in 1..Len(recs) : ~has_value(recs[i])

\* The first iteration of iterreduce's loop over groupby(data, itemgetter(0)):
\* the key, the records of the group and the values handed to the reducer.
first_group(data) ==
    LET n == run_length(data)
        recs == SubSeq(data, 1, n)
    IN [key |-> itemgetter0(data[1]), n |-> n, vals |-> group_values(recs),
        raises |-> group_raises(recs)]

RECURSIVE iterreduce_calls(_)
\* The calls iterreduce makes of the reducer on data, as <<key, values>>.
iterreduce_calls(data) ==
    IF data = << >> THEN << >>
    ELSE LET g == first_group(data)
         IN <<<<g.key, g.vals>>>> \o iterreduce_calls(SubSeq(data, g.n + 1, Len(data)))

\* ------------------------------------------------------ the user's functions
RECURSIVE digits_value(_)
digits_value(s) ==
    IF s = << >> THEN 0
    ELSE 10 * digits_value(SubSeq(s, 1, Len(s) - 1)) + (ord(s[Len(s)]) - 48)

\* int(v)
int(v) == IF v.t = "int" THEN v.n ELSE digits_value(v.s)

RECURSIVE sum_int(_)
\* sum(map(int, vals))
sum_int(vals) == IF vals = << >> THEN 0 ELSE int(Head(vals)) + sum_int(Tail(vals))

\* WordCount.reduce, also taken as the combiner: yield (key, sum(map(int, vals))).
\* A reduce function that does not look at its values (reads = FALSE)
\* yields (key, 1), as UniqueCount.map does.
user_reduce(key, vals, reads) ==
    IF reads THEN <<<<key, PyInt(sum_int(vals))>>>> ELSE <<<<key, PyInt(1)>>>>

\* What the user's map function can yield for one line while room for
\* `room` more pairs is left in the run.
MapKeys == {PyStr(<<"a">>), PyStr(<<"b">>)}
MapVals == {PyInt(1), PyInt(2)}
MapYields(room) == UNION {[1..n -> MapKeys \X MapVals] : n \in 0..room}

\* The lines a reduce worker can find on its standard input: key TAB value,
\* or a key alone (no tab).
RedLineSet ==
    {<<k, TAB, v>> : k \in {"a", "b"}, v \in {"1", "2"}}
        \cup {<<"a">>, <<"b">>} \cup {<<"xC3", TAB, "1">>}

RECURSIVE decodable_prefix(_)
\* How many lines at the head of lines stream_decode yields before it raises.
decodable_prefix(lines) ==
    IF lines = << >> \/ stream_decode_raises(Head(lines)) THEN 0
    ELSE 1 + decodable_prefix(Tail(lines))

\* =========================================================================
\* SpecRun: run(argv, poopklass) with argv[1] MAP or REDUCE.
\* =========================================================================
NoVal == PyStr(<< >>)
Ev(e, key, vals) == [e |-> e, key |-> key, vals |-> vals]

RunInit ==
    /\ rop \in {MAP, RED}
    /\ IF rop = MAP
       THEN /\ caps \in SUBSET {"setup", "combiner", "postmap"}
            /\ \E n \in 0..MaxLines : stdin = [i \in 1..n |-> <<"a">>]
       ELSE /\ caps \in SUBSET {"setup", "postreduce", "reads"}
            /\ stdin \in UNION {[1..n -> RedLineSet] : n \in 0..MaxRedLines}
    /\ nread = 0
    /\ rpc = "start"
    /\ emitted = << >>
    /\ buffer = << >>
    /\ pending = << >>
    /\ events = << >>
    /\ printed = << >>
    /\ KlassIdle /\ JobIdle /\ BuildIdle /\ MainIdle /\ CodecIdle

runOther == <<klassVars, jobVars, buildVars, mainVars, codecVars>>

\* A start that calls the setup hook under `if op == _MAP` only.
RunSetup_maponly ==
    /\ rpc = "start"
    /\ events' = IF "setup" \in caps /\ rop = MAP
                 THEN Append(events, Ev("setup", NoVal, << >>))
                 ELSE events
    /\ rpc' = IF rop = MAP /\ "combiner" \in caps THEN "sorting" ELSE "post"
    /\ UNCHANGED <<rop, caps, stdin, nread, emitted, buffer, pending, printed,
                   runOther>>

\* Lines 218-230 and 233: the instance is made and its setup hook called;
\* itermap, iterreduce and stream_encode are generators, and making them
\* runs none of their code.  With a combiner, sorted(out) comes next.
RunSetup ==
    /\ rpc = "start"
    /\ events' = IF "setup" \in caps
                 THEN Append(events, Ev("setup", NoVal, << >>))
                 ELSE events
    /\ rpc' = IF rop = MAP /\ "combiner" \in caps THEN "sorting" ELSE "post"
    /\ UNCHANGED <<rop, caps, stdin, nread, emitted, buffer, pending, printed,
                   runOther>>

\* Line 229, sorted(out) drawing on itermap (lines 190-191): the next line
\* is read and the user's map function called on it.
SortedPull ==
    /\ rpc = "sorting" /\ nread < Len(stdin)
    /\ \E outs \in MapYields(MaxPairs - Len(emitted)) :
        /\ emitted' = emitted \o outs
        /\ events' = Append(events, Ev("map", NoVal, outs))
    /\ nread' = nread + 1
    /\ UNCHANGED <<rop, caps, stdin, rpc, buffer, pending, printed, runOther>>

\* Line 229: the input is at its end and sorted() returns the sorted list.
SortedDone ==
    /\ rpc = "sorting" /\ nread = Len(stdin)
    /\ buffer' = sorted(emitted)
    /\ rpc' = "post"
    /\ UNCHANGED <<rop, caps, stdin, nread, emitted, pending, events, printed,
                   runOther>>

\* Lines 231 and 234: the post hook, called before the loop of line 238
\* draws the first element of out.
PostHook ==
    /\ rpc = "post"
    /\ LET hook == IF rop = MAP THEN "postmap" ELSE "postreduce" IN
        events' = IF hook \in caps
                  THEN Append(events, Ev(hook, NoVal, << >>))
                  ELSE events
    /\ rpc' = "print"
    /\ UNCHANGED <<rop, caps, stdin, nread, emitted, buffer, pending, printed,
                   runOther>>

\* Line 238 drawing on stream_encode and itermap (lines 190-191), no combiner.
MapPull ==
    /\ rpc = "print" /\ rop = MAP /\ "combiner" \notin caps
    /\ pending = << >> /\ nread < Len(stdin)
    /\ \E outs \in MapYields(MaxPairs - Len(emitted)) :
        /\ emitted' = emitted \o outs
        /\ events' = Append(events, Ev("map", NoVal, outs))
        /\ pending' = outs
    /\ nread' = nread + 1
    /\ UNCHANGED <<rop, caps, stdin, rpc, buffer, printed, runOther>>

\* Line 238 drawing on stream_encode and iterreduce over the sorted list
\* (lines 197-199): the combiner is called on the next group.
CombinePull ==
    /\ rpc = "print" /\ rop = MAP /\ "combiner" \in caps
    /\ pending = << >> /\ buffer # << >>
    /\ LET g == first_group(buffer) IN
        /\ events' = Append(events, Ev("combine", g.key, g.vals))
        /\ pending' = user_reduce(g.key, g.vals, TRUE)
        /\ buffer' = SubSeq(buffer, g.n + 1, Len(buffer))
    /\ UNCHANGED <<rop, caps, stdin, nread, rpc, emitted, printed, runOther>>

\* Line 238 drawing on stream_encode and iterreduce over stream_decode of
\* the input (lines 195-199, 207): the reducer is called on the next group.
\* groupby draws the records one by one; a line stream_decode cannot decode
\* raises when it is drawn, which for the line after a group is while the
\* reducer reads the group's values, or else when the next group is asked for.
ReducePull ==
    /\ rpc = "print" /\ rop = RED
    /\ pending = << >> /\ nread < Len(stdin)
    /\ LET rest == SubSeq(stdin, nread + 1, Len(stdin))
           ok == decodable_prefix(rest)
           data == [i \in 1..ok |-> stream_decode(rest[i])]
           reads == "reads" \in caps
       IN IF ok = 0
          THEN /\ rpc' = "UnicodeDecodeError"
               /\ UNCHANGED <<events, nread, pending>>
          ELSE LET g == first_group(data) IN
               /\ events' = Append(events, Ev("reduce", g.key, g.vals))
               /\ nread' = nread + g.n
               /\ IF reads /\ g.raises
                  THEN /\ rpc' = "IndexError"
                       /\ UNCHANGED pending
                  ELSE IF reads /\ g.n = ok /\ ok < Len(rest)
                  THEN /\ rpc' = "UnicodeDecodeError"
                       /\ UNCHANGED pending
                  ELSE /\ pending' = user_reduce(g.key, g.vals, reads)
                       /\ UNCHANGED rpc
    /\ UNCHANGED <<rop, caps, stdin, emitted, buffer, printed, runOther>>

\* Lines 203 and 238: the next record is encoded and printed.
PrintLine ==
    /\ rpc = "print" /\ pending # << >>
    /\ IF stream_encode_raises(Head(pending))
       THEN /\ rpc' = "UnicodeDecodeError"
            /\ UNCHANGED <<printed, pending>>
       ELSE /\ printed' = Append(printed, stream_encode(Head(pending)))
            /\ pending' = Tail(pending)
            /\ UNCHANGED rpc
    /\ UNCHANGED <<rop, caps, stdin, nread, emitted, buffer, events, runOther>>

\* Lines 238-239: out is exhausted and run returns 0.
RunReturn ==
    /\ rpc = "print" /\ pending = << >>
    /\ nread = Len(stdin) /\ buffer = << >>
    /\ rpc' = "done"
    /\ UNCHANGED <<rop, caps, stdin, nread, emitted, buffer, pending, events,
                   printed, runOther>>

NextRun ==
    \/ RunSetup
    \/ SortedPull
    \/ SortedDone
    \/ PostHook
    \/ MapPull
    \/ CombinePull
    \/ ReducePull
    \/ PrintLine
    \/ RunReturn

SpecRun == RunInit /\ [][NextRun]_vars

\* ------------------------------------------------- claims on the pipeline
IsPost(e) == e.e \in {"postmap", "postreduce"}
IsUserCall(e) == e.e \in {"map", "combine", "reduce"}
IsCombine(e) == e.e = "combine"
IsReduce(e) == e.e = "reduce"

Calls(sel(_)) ==
    LET c == SelectSeq(events, sel) IN [i \in 1..Len(c) |-> <<c[i].key, c[i].vals>>]

\* C2: in a phase of a stage that defines the post hook, the hook is called
\* at most once, no call of the user's map, combine or reduce function
\* follows it, and once the phase has ended it has been called exactly once.
C2_PostHookAfterRecords ==
    (\/ (rop = MAP /\ "postmap" \in caps)
     \/ (rop = RED /\ "postreduce" \in caps))
    => /\ Len(SelectSeq(events, IsPost)) <= 1
       /\ rpc = "done" => Len(SelectSeq(events, IsPost)) = 1
       /\ \A i, j \in 1..Len(events) :
             (i < j /\ IsPost(events[i])) => ~IsUserCall(events[j])

IsSetup(e) == e.e = "setup"

\* C13: in a MAP or REDUCE phase of a stage that defines a setup hook, the
\* hook is called exactly once, and before it is called no input line has
\* been read and the user's map, combine or reduce function has not been
\* called: the call of setup is the first thing the phase does.
C13_SetupFirst ==
    "setup" \in caps
    => /\ rpc = "start" => (events = << >> /\ nread = 0)
       /\ rpc # "start" =>
             /\ events # << >>
             /\ IsSetup(events[1])
             /\ Len(SelectSeq(events, IsSetup)) = 1
       /\ (nread > 0 \/ SelectSeq(events, IsUserCall) # << >>)
             => IsSetup(events[1])

\* A reduce phase with a setup hook read two lines and called reduce.
C13_Witness ==
    /\ rop = RED /\ "setup" \in caps /\ rpc = "done"
    /\ nread = 2
    /\ IsSetup(events[1])
    /\ Len(SelectSeq(events, IsReduce)) >= 1

\* A decoded record with no second field: its line had no tab.
NoValue(rec) == Len(rec) < 2

AsciiInput == \A i \in 1..Len(stdin) : is_ascii(stdin[i])

\* C18: in the reduce phase a line with no tab is handled by one of two
\* policies, whatever the user's reduce function does: once such a line has
\* been read, either the phase has rejected it with a decode error, or the
\* phase goes on without an error and reduce has been called with the whole
\* line as the key.
C18_TablessLinePolicy ==
    (rop = RED /\ AsciiInput)
    => \/ \A i \in 1..nread :
             NoValue(stream_decode(stdin[i])) => rpc = "DecodeError"
       \/ /\ rpc \notin {"IndexError", "UnicodeDecodeError"}
          /\ \A i \in 1..nread :
                NoValue(stream_decode(stdin[i]))
                => \E j \in 1..Len(events) :
                      IsReduce(events[j]) /\ events[j].key = PyStr(stdin[i])

\* The records of the lines read so far, as <<key, value>> pairs.
Consumed == [i \in 1..nread |-> stream_decode(stdin[i])]

RECURSIVE Flatten(_)
\* The <<key, value>> pairs of a sequence of calls <<key, values>>, in order.
Flatten(calls) ==
    IF calls = << >> THEN << >>
    ELSE [i \in 1..Len(Head(calls)[2]) |-> <<Head(calls)[1], Head(calls)[2][i]>>]
         \o Flatten(Tail(calls))

WellFormed ==
    \A i \in 1..Len(stdin) :
        /\ is_ascii(stdin[i])
        /\ \E j \in 1..Len(stdin[i]) : stdin[i][j] = TAB

\* C7: on a reduce input of ASCII key TAB value lines, the calls of the reduce
\* function are the maximal runs of equal consecutive keys, one call per
\* run, in input order and with the run's values in order: the calls laid
\* end to end are the records read, no call is empty, neighbouring calls
\* have different keys, and the next unread record has another key.
C7_ReduceGroupsAdjacentRuns ==
    (rop = RED /\ WellFormed)
    => LET calls == Calls(IsReduce) IN
       /\ Flatten(calls) = Consumed
       /\ \A i \in 1..Len(calls) : calls[i][2] # << >>
       /\ \A i \in 1..(Len(calls) - 1) : calls[i][1] # calls[i + 1][1]
       /\ (calls # << >> /\ nread < Len(stdin))
             => stream_decode(stdin[nread + 1])[1] # calls[Len(calls)][1]
       /\ rpc = "done" => nread = Len(stdin)

\* The example [(a,1),(b,1),(a,2)]: three calls, a->[1], b->[1], a->[2].
C7_Witness ==
    /\ rop = RED /\ rpc = "done"
    /\ stdin = <<<<"a", TAB, "1">>, <<"b", TAB, "1">>, <<"a", TAB, "2">>>>
    /\ Calls(IsReduce) = << <<PyStr(<<"a">>), <<PyStr(<<"1">>)>>>>,
                            <<PyStr(<<"b">>), <<PyStr(<<"1">>)>>>>,
                            <<PyStr(<<"a">>), <<PyStr(<<"2">>)>>>> >>

Permuted(xs, p) == [i \in 1..Len(xs) |-> xs[p[i]]]

\* C8: with a combiner, the groups the combine function receives and the
\* lines the map phase prints are the same for every permutation of the
\* pairs the map function emitted: whatever the order of emission, they are
\* the groups of this run and the lines of this run.
C8_CombineOrderInvariant ==
    (rop = MAP /\ "combiner" \in caps /\ rpc = "done")
    => \A p \in Permutations(1..Len(emitted)) :
          LET calls == iterreduce_calls(sorted(Permuted(emitted, p))) IN
          /\ calls = Calls(IsCombine)
          /\ [i \in 1..Len(calls) |->
                stream_encode(user_reduce(calls[i][1], calls[i][2], TRUE)[1])]
             = printed

\* Two pairs of one key were emitted with the greater value first, and a
\* pair of another key after them.
C8_Witness ==
    /\ rop = MAP /\ "combiner" \in caps /\ rpc = "done"
    /\ emitted = << <<PyStr(<<"b">>), PyInt(2)>>, <<PyStr(<<"b">>), PyInt(1)>>,
                    <<PyStr(<<"a">>), PyInt(1)>> >>
    /\ Calls(IsCombine) = << <<PyStr(<<"a">>), <<PyInt(1)>>>>,
                             <<PyStr(<<"b">>), <<PyInt(1), PyInt(2)>>>> >>
    /\ printed = << <<"a", TAB, "1">>, <<"b", TAB, "3">> >>

\* =========================================================================
\* SpecCodec: one line through stream_decode and then stream_encode.
\* =========================================================================
Alphabet == {"a", "xC3", TAB}

CodecInit ==
    /\ cline \in UNION {[1..n -> Alphabet] : n \in 0..MaxLineLen}
    /\ decoded = << >>
    /\ encoded = << >>
    /\ cpc = "line"
    /\ KlassIdle /\ JobIdle /\ BuildIdle /\ MainIdle /\ RunIdle

\* Line 207: the line is decoded.
Decode ==
    /\ cpc = "line"
    /\ IF stream_decode_raises(cline)
       THEN /\ cpc' = "UnicodeDecodeError"
            /\ UNCHANGED decoded
       ELSE /\ decoded' = stream_decode(cline)
            /\ cpc' = "decoded"
    /\ UNCHANGED <<cline, encoded, klassVars, jobVars, buildVars, mainVars,
                   runVars>>

\* Line 203: the decoded record is encoded.
Encode ==
    /\ cpc = "decoded"
    /\ IF stream_encode_raises(decoded)
       THEN /\ cpc' = "UnicodeDecodeError"
            /\ UNCHANGED encoded
       ELSE /\ encoded' = stream_encode(decoded)
            /\ cpc' = "encoded"
    /\ UNCHANGED <<cline, decoded, klassVars, jobVars, buildVars, mainVars,
                   runVars>>

NextCodec ==
    \/ Decode
    \/ Encode

SpecCodec == CodecInit /\ [][NextCodec]_vars

HasTab(s) == \E i \in 1..Len(s) : s[i] = TAB

\* C9: for every line with at least one tab, decoding and then encoding
\* gives the line back; the decoded record has two fields, the text before
\* the first tab (which holds no tab) and all the text after it, tabs
\* included.
C9_DecodeEncodeRoundTrip ==
    (HasTab(cline) /\ cpc # "line")
    => /\ cpc \in {"decoded", "encoded"}
       /\ Len(decoded) = 2
       /\ ~HasTab(decoded[1].s)
       /\ decoded[1].s \o <<TAB>> \o decoded[2].s = cline
       /\ cpc = "encoded" => encoded = cline

\* The same of the lines that are ASCII text.
AsciiRoundTrip ==
    (HasTab(cline) /\ is_ascii(cline) /\ cpc # "line")
    => /\ cpc \in {"decoded", "encoded"}
       /\ Len(decoded) = 2
       /\ ~HasTab(decoded[1].s)
       /\ decoded[1].s \o <<TAB>> \o decoded[2].s = cline
       /\ cpc = "encoded" => encoded = cline

====
